---- MODULE Spec2Model ----
(***************************************************************************)
(* Model of DataProjectReport/html_parser.py: parse_html_content turns a   *)
(* piece of HTML into a list of blocks (paragraphs of text runs, tables).  *)
(*                                                                         *)
(* Text is a sequence of one-character strings, so that strip(), split()   *)
(* and join() are computed character by character.  Markup is represented  *)
(* by the node tree html.parser builds for it: a sequence of nodes, each a *)
(* record with a name ("#text" for a NavigableString), its text, the       *)
(* attributes the program or its specification reads (href, rowspan,       *)
(* colspan) and its child nodes.  The text alphabet has no markup          *)
(* characters ("<", "&"), so re-parsing flattened text gives one string.   *)
(***************************************************************************)
EXTENDS Integers, Sequences, FiniteSets, TLC

\* one call of a function of html_parser.py (described with Init below)
VARIABLES html, pc, soup, idx, blocks, paras, visited

\* clean_html_and_extract_tables
VARIABLES preserve, plaintext, tables, dead

\* render_html_to_docx
VARIABLES rpos, alloc, fault

\* recurse, called on its own
VARIABLES rarg, rruns

\* main of project_report.py
VARIABLES filters, projects, pidx, matching_rows

\* get_project_issues of http_client.py
VARIABLES cache, lastOk, lastCachedOk, call, ncalls

\* ReportBuilder.build_sections and _render_issue of report_builder.py
VARIABLES issues, groups, out, gpos, ipos, fieldi, tbl

parseVars == <<html, soup, idx, blocks, paras, visited>>
cleanVars == <<preserve, plaintext, tables, dead>>
renderVars == <<rpos, alloc, fault>>
recurseVars == <<rarg, rruns>>
mainVars == <<filters, projects, pidx, matching_rows>>
issuesVars == <<cache, lastOk, lastCachedOk, call, ncalls>>
reportVars == <<issues, groups, out, gpos, ipos, fieldi, tbl>>

\* what a call of parse_html_content leaves alone
notParse == <<cleanVars, renderVars, recurseVars, mainVars, issuesVars, reportVars>>

vars == <<pc, parseVars, cleanVars, renderVars, recurseVars, mainVars, issuesVars,
          reportVars>>

(***************************************************************************)
(* Bounds of the model.                                                    *)
(***************************************************************************)
MaxTextLen == 6     \* longest text of a generated string node
MaxTop == 3         \* most top-level nodes of a generated document
MaxSpan == 2        \* largest rowspan / colspan of a generated cell

(***************************************************************************)
(* Python values.                                                          *)
(***************************************************************************)
None == "None"      \* Python's None, where an attribute string may stand
NL == "\n"
SP == " "

\* str.isspace for the characters of the model
IsSpace(c) == c \in {SP, NL}

RECURSIVE LStrip(_)
LStrip(s) ==
    IF s = <<>> THEN <<>>
    ELSE IF IsSpace(Head(s)) THEN LStrip(Tail(s)) ELSE s

RECURSIVE RStrip(_)
RStrip(s) ==
    IF s = <<>> THEN <<>>
    ELSE IF IsSpace(s[Len(s)]) THEN RStrip(SubSeq(s, 1, Len(s) - 1)) ELSE s

\* str.strip()
Strip(s) == RStrip(LStrip(s))

\* index of the first occurrence of sep in s at or after i, 0 when there is none
RECURSIVE FindFrom(_, _, _)
FindFrom(s, sep, i) ==
    IF i + Len(sep) - 1 > Len(s) THEN 0
    ELSE IF SubSeq(s, i, i + Len(sep) - 1) = sep THEN i
    ELSE FindFrom(s, sep, i + 1)

\* str.split(sep): left to right, non-overlapping, empty pieces kept
RECURSIVE Split(_, _)
Split(s, sep) ==
    LET i == FindFrom(s, sep, 1)
    IN  IF i = 0 THEN <<s>>
        ELSE <<SubSeq(s, 1, i - 1)>> \o Split(SubSeq(s, i + Len(sep), Len(s)), sep)

\* sep.join(pieces)
RECURSIVE Join(_, _)
Join(pieces, sep) ==
    IF pieces = <<>> THEN <<>>
    ELSE IF Len(pieces) = 1 THEN pieces[1]
    ELSE pieces[1] \o sep \o Join(Tail(pieces), sep)

\* concatenation of a sequence of sequences
RECURSIVE Flatten(_)
Flatten(ss) == IF ss = <<>> THEN <<>> ELSE Head(ss) \o Flatten(Tail(ss))

(***************************************************************************)
(* The node tree (bs4's NavigableString and Tag).                          *)
(***************************************************************************)
TextName == "#text"

Text(s) ==
    [name |-> TextName, text |-> s, href |-> None,
     rowspan |-> 1, colspan |-> 1, contents |-> <<>>]

Tag(n, kids) ==
    [name |-> n, text |-> <<>>, href |-> None,
     rowspan |-> 1, colspan |-> 1, contents |-> kids]

Link(h, kids) == [Tag("a", kids) EXCEPT !.href = h]

Cell(n, rs, cs, kids) == [Tag(n, kids) EXCEPT !.rowspan = rs, !.colspan = cs]

IsString(node) == node.name = TextName
IsTag(node) == node.name # TextName

\* Tag.find_all(names): the descendants with one of the names, in document order
RECURSIVE FindAllIn(_, _)
FindAllIn(kids, names) ==
    IF kids = <<>> THEN <<>>
    ELSE LET k == Head(kids)
         IN  (IF IsTag(k) /\ k.name \in names THEN <<k>> ELSE <<>>)
             \o FindAllIn(k.contents, names)
             \o FindAllIn(Tail(kids), names)

FindAll(node, names) == FindAllIn(node.contents, names)

\* the strings of a node in document order (a string node yields itself)
RECURSIVE AllStringsIn(_)
AllStringsIn(kids) ==
    IF kids = <<>> THEN <<>>
    ELSE LET k == Head(kids)
         IN  (IF IsString(k) THEN <<k.text>> ELSE AllStringsIn(k.contents))
             \o AllStringsIn(Tail(kids))

AllStrings(node) == AllStringsIn(<<node>>)

RECURSIVE StripEach(_)
StripEach(ss) ==
    IF ss = <<>> THEN <<>>
    ELSE LET t == Strip(Head(ss))
         IN  (IF t = <<>> THEN <<>> ELSE <<t>>) \o StripEach(Tail(ss))

\* get_text(separator=sep, strip=True): every string stripped, the empty ones
\* skipped, the rest joined by sep
GetTextStrip(node, sep) == Join(StripEach(AllStrings(node)), sep)

(***************************************************************************)
(* parse_html_content, html_parser.py lines 28-75.                         *)
(***************************************************************************)
\* The argument: None, or a string given by the node tree of its markup
\* (the empty string has no nodes).
NoneHtml == [isnone |-> TRUE, markup |-> <<>>]
Markup(nodes) == [isnone |-> FALSE, markup |-> nodes]

\* variant of HtmlOrEmpty: str(html), which turns None into the text "None"
HtmlAsStr(h) == IF h.isnone THEN <<Text(<<"N", "o", "n", "e">>)>> ELSE h.markup

\* html or "": None and the empty string are both falsy
HtmlOrEmpty(h) == IF h.isnone \/ h.markup = <<>> THEN <<>> ELSE h.markup

\* BeautifulSoup(markup, "html.parser"): the document object, a Tag named
\* "[document]" whose contents are the top-level nodes
BeautifulSoup(nodes) == Tag("[document]", nodes)

\* variant of Decompose: only the top-level script and style nodes removed
DecomposeTopLevel(kids) ==
    SelectSeq(kids, LAMBDA k : ~(IsTag(k) /\ k.name \in {"script", "style"}))

\* for tag in soup(["script", "style"]): tag.decompose()
RECURSIVE Decompose(_)
Decompose(kids) ==
    IF kids = <<>> THEN <<>>
    ELSE LET k == Head(kids)
         IN  (IF IsTag(k) /\ k.name \in {"script", "style"} THEN <<>>
              ELSE <<[k EXCEPT !.contents = Decompose(k.contents)]>>)
             \o Decompose(Tail(kids))

\* for br in soup.find_all("br"): br.replace_with("\n")
RECURSIVE ReplaceBr(_)
ReplaceBr(kids) ==
    IF kids = <<>> THEN <<>>
    ELSE LET k == Head(kids)
         IN  (IF IsTag(k) /\ k.name = "br" THEN <<Text(<<NL>>)>>
              ELSE <<[k EXCEPT !.contents = ReplaceBr(k.contents)]>>)
             \o ReplaceBr(Tail(kids))

\* variant of Elements: soup.body's children when there is a body
BodyElements(s) ==
    LET bodies == FindAll(s, {"body"})
    IN  IF bodies # <<>> THEN bodies[1].contents ELSE s.contents

\* elements = soup.contents
Elements(s) == s.contents

\* [x.get_text(strip=True) for x in nodes]
RECURSIVE CellTexts(_)
CellTexts(nodes) ==
    IF nodes = <<>> THEN <<>>
    ELSE <<GetTextStrip(Head(nodes), <<>>)>> \o CellTexts(Tail(nodes))

\* the loop over elem.find_all("tr"): a row without cells is not appended
RECURSIVE TableRows(_)
TableRows(trs) ==
    IF trs = <<>> THEN <<>>
    ELSE LET cells == CellTexts(FindAll(Head(trs), {"td", "th"}))
         IN  (IF cells # <<>> THEN <<cells>> ELSE <<>>) \o TableRows(Tail(trs))

TableBlock(elem) ==
    [type |-> "table",
     headers |-> CellTexts(FindAll(elem, {"th"})),
     rows |-> TableRows(FindAll(elem, {"tr"})),
     runs |-> <<>>]

\* an all-whitespace string is stored by the tree builder as one newline or
\* one space
CollapseBlank(s) ==
    IF \A k \in 1..Len(s) : IsSpace(s[k])
    THEN (IF \E k \in 1..Len(s) : s[k] = NL THEN <<NL>> ELSE <<SP>>)
    ELSE s

\* BeautifulSoup(para, "html.parser") of flattened text: one string node
ParseFragment(para) ==
    BeautifulSoup(IF para = <<>> THEN <<>> ELSE <<Text(CollapseBlank(para))>>)

\* truthiness of an href value
Truthy(h) == h # None /\ h # ""

\* variant of recurse: the formatting of the enclosing nodes not passed down
RECURSIVE RecurseFlat(_, _, _, _)
RecurseFlat(node, bold, italic, href) ==
    IF IsString(node)
    THEN LET txt == Strip(node.text)
         IN  IF txt # <<>>
             THEN <<[text |-> txt, bold |-> bold, italic |-> italic, href |-> href]>>
             ELSE <<>>
    ELSE LET b == node.name \in {"strong", "b"}
             i == node.name \in {"em", "i"}
             h == IF node.name = "a" THEN node.href ELSE None
         IN  Flatten([k \in 1..Len(node.contents) |->
                         RecurseFlat(node.contents[k], b, i, h)])

RECURSIVE Recurse(_, _, _, _)
RECURSIVE RecurseAll(_, _, _, _)
\* recurse(node, bold, italic, href): the runs appended for node
Recurse(node, bold, italic, href) ==
    IF IsString(node)
    THEN LET txt == Strip(node.text)
         IN  IF txt # <<>>
             THEN <<[text |-> txt, bold |-> bold, italic |-> italic, href |-> href]>>
             ELSE <<>>
    ELSE LET b == bold \/ node.name \in {"strong", "b"}
             i == italic \/ node.name \in {"em", "i"}
             h == IF Truthy(href) THEN href
                  ELSE IF node.name = "a" THEN node.href ELSE None
         IN  RecurseAll(node.contents, b, i, h)

RecurseAll(kids, b, i, h) ==
    IF kids = <<>> THEN <<>>
    ELSE Recurse(Head(kids), b, i, h) \o RecurseAll(Tail(kids), b, i, h)

\* variant of ParaBlock: the block appended whether or not there are runs
ParaBlockAlways(para) ==
    <<[type |-> "paragraph", headers |-> <<>>, rows |-> <<>>,
       runs |-> Recurse(ParseFragment(para), FALSE, FALSE, None)]>>

\* the body of "for para in text.split(...)": a block when there are runs
ParaBlock(para) ==
    LET runs == Recurse(ParseFragment(para), FALSE, FALSE, None)
    IN  IF runs # <<>>
        THEN <<[type |-> "paragraph", headers |-> <<>>, rows |-> <<>>, runs |-> runs]>>
        ELSE <<>>

RECURSIVE ParaBlocks(_)
ParaBlocks(ps) ==
    IF ps = <<>> THEN <<>> ELSE ParaBlock(Head(ps)) \o ParaBlocks(Tail(ps))

\* variant of ElemText: the strings joined by a space
ElemTextSpaced(elem) == GetTextStrip(elem, <<SP>>)

\* text = elem.get_text(separator="\n", strip=True)
ElemText(elem) == GetTextStrip(elem, <<NL>>)

\* variant of SplitParas: split at every newline
SplitLines(text) == Split(text, <<NL>>)

\* text.split("\n\n")
SplitParas(text) == Split(text, <<NL, NL>>)

IsTable(elem) == IsTag(elem) /\ elem.name = "table"

(***************************************************************************)
(* The inputs the model checks: node trees html.parser can build.          *)
(***************************************************************************)
Chars == {"a", SP, NL}

\* the texts of string nodes: not empty, and all-whitespace only as the tree
\* builder stores it
Texts ==
    {s \in UNION {[1..n -> Chars] : n \in 1..MaxTextLen} : CollapseBlank(s) = s}

A == Text(<<"a">>)
B == Text(<<"b">>)
X == Text(<<"x">>)      \* "x" occurs in script and style content only

Hrefs == {"http://x", "http://y"}

\* one string at top level, bare or in a paragraph element
TextDocs == {<<Text(s)>> : s \in Texts} \cup {<<Tag("p", <<Text(s)>>)>> : s \in Texts}

\* paragraphs with nested inline markup
Inline0 == {A, Text(<<"b", SP>>)}
Inline1 ==
    Inline0
    \cup {Tag(n, <<l>>) : n \in {"b", "strong", "i", "em", "span"}, l \in Inline0}
    \cup {Link(h, <<l>>) : h \in Hrefs, l \in Inline0}
Inline2 ==
    Inline1
    \cup {Tag(n, <<B, m>>) : n \in {"b", "i"}, m \in Inline1}
    \cup {Link(h, <<m>>) : h \in Hrefs, m \in Inline1}
InlineDocs ==
    {<<Tag("p", <<m>>)>> : m \in Inline2}
    \cup {<<Tag("p", <<A, m, Text(<<"d">>)>>)>> : m \in Inline2}

\* tables: one or two rows of one or two cells, any spans up to MaxSpan
Spans == 1..MaxSpan
CellKinds ==
    {Cell("td", rs, cs, <<A>>) : rs \in Spans, cs \in Spans}
    \cup {Cell("th", 1, 1, <<B>>),
          Cell("td", 1, 1, <<Tag("script", <<X>>), A>>),
          Cell("td", 1, 1, <<Tag("b", <<A>>), Text(<<SP, "b", SP>>)>>)}
RowKinds ==
    {Tag("tr", <<c>>) : c \in CellKinds}
    \cup {Tag("tr", <<c, d>>) : c \in CellKinds, d \in CellKinds}
TableKinds ==
    {Tag("table", <<r>>) : r \in RowKinds}
    \cup {Tag("table", <<r, q>>) : r \in RowKinds, q \in RowKinds}
NestedTable ==
    Tag("table", <<Tag("tr", <<Cell("td", 1, 1,
        <<Tag("table", <<Tag("tr", <<Cell("td", 1, 1, <<A>>)>>)>>)>>),
        Cell("td", 1, 1, <<B>>)>>)>>)
\* tables with a row element that has no cell
EmptyRowTables ==
    {Tag("table", <<Tag("tr", <<>>), Tag("tr", <<Cell("td", 1, 1, <<A>>)>>)>>),
     Tag("table", <<Tag("tr", <<Cell("td", 1, 1, <<A>>)>>), Tag("tr", <<>>),
                    Tag("tr", <<Cell("th", 1, 1, <<B>>), Cell("td", 1, 1, <<A>>)>>)>>)}
TableDocs == {<<t>> : t \in TableKinds \cup {NestedTable} \cup EmptyRowTables}

\* paragraphs of strings and line-break elements
Br == Tag("br", <<>>)
BreakKids == {A, Text(<<"b", SP>>), Text(<<SP, "b">>), Br}
BreakDocs == {<<Tag("p", k)>> : k \in UNION {[1..n -> BreakKids] : n \in 1..4}}

\* documents of several top-level nodes
SmallTable ==
    Tag("table", <<Tag("tr", <<Cell("th", 1, 1, <<A>>), Cell("td", 1, 1, <<B>>)>>)>>)
TopNodes ==
    {A, Text(<<NL>>),
     Tag("p", <<B>>),
     Tag("p", <<A, Tag("br", <<>>), Tag("br", <<>>), B>>),
     SmallTable,
     Tag("script", <<X>>),
     Tag("div", <<Tag("style", <<X>>), Tag("p", <<A>>), Tag("p", <<B>>)>>),
     Tag("div", <<Tag("span", <<Tag("script", <<X>>)>>)>>),
     Tag("br", <<>>)}
MultiDocs == UNION {[1..n -> TopNodes] : n \in 1..MaxTop}

\* documents with a body element, with or without the html element around it
BodyKids == UNION {[1..n -> TopNodes] : n \in 1..2}
BodyDocs ==
    {<<Tag("html", <<Tag("body", d)>>)>> : d \in BodyKids}
    \cup {<<Tag("body", d)>> : d \in BodyKids}

Inputs ==
    {NoneHtml, Markup(<<>>)}
    \cup {Markup(d) : d \in TextDocs \cup InlineDocs \cup TableDocs
                            \cup MultiDocs \cup BodyDocs \cup BreakDocs}

(***************************************************************************)
(* The state machine: one call of parse_html_content.                      *)
(*   html     the argument                                                 *)
(*   pc       the position in the function                                 *)
(*   soup     the document tree                                            *)
(*   idx      the index in soup.contents of the next element of the loop   *)
(*   blocks   the list being built, returned at "done"                     *)
(*   paras    history: the segments the paragraph loop has iterated over   *)
(*   visited  history: the strings recurse has been called on              *)
(***************************************************************************)
\* the variables of the other functions, while they are not running
CleanIdle == preserve = FALSE /\ plaintext = <<>> /\ tables = <<>> /\ dead = 0
RenderIdle == rpos = 1 /\ alloc = <<>> /\ fault = <<>>
RecurseIdle == rarg = <<>> /\ rruns = <<>>
MainIdle == filters = <<>> /\ projects = <<>> /\ pidx = 1 /\ matching_rows = <<>>
IssuesIdle ==
    cache = <<>> /\ lastOk = <<>> /\ lastCachedOk = <<>> /\ call = <<>> /\ ncalls = 0
ReportIdle ==
    /\ issues = <<>> /\ groups = <<>> /\ out = <<>>
    /\ gpos = 1 /\ ipos = 1 /\ fieldi = 0 /\ tbl = "none"
ParseIdle ==
    /\ html = NoneHtml /\ soup = BeautifulSoup(<<>>) /\ idx = 1
    /\ blocks = <<>> /\ paras = <<>> /\ visited = <<>>

Init ==
    /\ html \in Inputs
    /\ pc = "start"
    /\ soup = BeautifulSoup(<<>>)
    /\ idx = 1
    /\ blocks = <<>>
    /\ paras = <<>>
    /\ visited = <<>>
    /\ CleanIdle /\ RenderIdle /\ RecurseIdle /\ MainIdle /\ IssuesIdle /\ ReportIdle

\* line 30
MakeSoup ==
    /\ pc = "start"
    /\ soup' = BeautifulSoup(HtmlOrEmpty(html))
    /\ pc' = "decompose"
    /\ UNCHANGED <<html, idx, blocks, paras, visited>>
    /\ UNCHANGED notParse

\* line 33
DecomposeScripts ==
    /\ pc = "decompose"
    /\ soup' = [soup EXCEPT !.contents = Decompose(soup.contents)]
    /\ pc' = "br"
    /\ UNCHANGED <<html, idx, blocks, paras, visited>>
    /\ UNCHANGED notParse

\* line 34
ReplaceBreaks ==
    /\ pc = "br"
    /\ soup' = [soup EXCEPT !.contents = ReplaceBr(soup.contents)]
    /\ pc' = "loop"
    /\ UNCHANGED <<html, idx, blocks, paras, visited>>
    /\ UNCHANGED notParse

\* lines 42-50: one iteration of the loop, on a table element
HandleTable ==
    /\ pc = "loop"
    /\ idx <= Len(Elements(soup))
    /\ IsTable(Elements(soup)[idx])
    /\ blocks' = Append(blocks, TableBlock(Elements(soup)[idx]))
    /\ idx' = idx + 1
    /\ UNCHANGED <<html, pc, soup, paras, visited>>
    /\ UNCHANGED notParse

\* the strings recurse reaches from the re-parsed segments
RECURSIVE FragmentStrings(_)
FragmentStrings(ps) ==
    IF ps = <<>> THEN <<>>
    ELSE AllStrings(ParseFragment(Head(ps))) \o FragmentStrings(Tail(ps))

\* lines 51-73: one iteration of the loop, on any other node
HandleParagraph ==
    /\ pc = "loop"
    /\ idx <= Len(Elements(soup))
    /\ ~IsTable(Elements(soup)[idx])
    /\ LET text == ElemText(Elements(soup)[idx])
           ps == IF text = <<>> THEN <<>> ELSE SplitParas(text)
       IN  /\ blocks' = blocks \o ParaBlocks(ps)
           /\ paras' = paras \o ps
           /\ visited' = visited \o FragmentStrings(ps)
    /\ idx' = idx + 1
    /\ UNCHANGED <<html, pc, soup>>
    /\ UNCHANGED notParse

\* line 75
Return ==
    /\ pc = "loop"
    /\ idx > Len(Elements(soup))
    /\ pc' = "done"
    /\ UNCHANGED <<html, soup, idx, blocks, paras, visited>>
    /\ UNCHANGED notParse

Next ==
    \/ MakeSoup
    \/ DecomposeScripts
    \/ ReplaceBreaks
    \/ HandleTable
    \/ HandleParagraph
    \/ Return

Spec == Init /\ [][Next]_vars

(***************************************************************************)
(* Notions the claims are stated with.                                     *)
(***************************************************************************)
Done == pc = "done"

RECURSIVE SumOf(_)
SumOf(ns) == IF ns = <<>> THEN 0 ELSE Head(ns) + SumOf(Tail(ns))

Contains(s, sub) == FindFrom(s, sub, 1) # 0

TableBlocks == SelectSeq(blocks, LAMBDA blk : blk.type = "table")
ParagraphBlocks == SelectSeq(blocks, LAMBDA blk : blk.type = "paragraph")

\* the argument is markup of exactly one top-level node, of the given name
SingleTop(n) ==
    /\ ~html.isnone
    /\ Len(html.markup) = 1
    /\ html.markup[1].name = n

\* a table whose rows are its children and whose cells are their children
PlainTable(t) ==
    /\ \A r \in 1..Len(t.contents) :
          /\ t.contents[r].name = "tr"
          /\ \A c \in 1..Len(t.contents[r].contents) :
                /\ t.contents[r].contents[c].name \in {"td", "th"}
                /\ FindAll(t.contents[r].contents[c], {"table", "tr", "td", "th"}) = <<>>

SrcCells(t, r) == t.contents[r].contents

\* the grid columns row r occupies with its own cells
OwnWidth(t, r) ==
    SumOf([c \in 1..Len(SrcCells(t, r)) |-> SrcCells(t, r)[c].colspan])

\* the grid columns of row r that cells of earlier rows cover by their rowspan
CoveredFrom(t, q, r) ==
    SumOf([c \in 1..Len(SrcCells(t, q)) |->
              IF q + SrcCells(t, q)[c].rowspan > r THEN SrcCells(t, q)[c].colspan ELSE 0])
CoveredWidth(t, r) == SumOf([q \in 1..(r - 1) |-> CoveredFrom(t, q, r)])

GridWidth(t, r) == OwnWidth(t, r) + CoveredWidth(t, r)

\* the source describes a rectangular grid once its spans are honoured
SourceRectangular(t) ==
    \A r \in 1..Len(t.contents) : GridWidth(t, r) = GridWidth(t, 1)

\* C1: for a table whose spans describe a rectangular grid, all the rows of
\* the emitted table block have the same number of cells.
C1_RowsRectangular ==
    (Done /\ SingleTop("table") /\ PlainTable(html.markup[1])
          /\ SourceRectangular(html.markup[1]))
    => \A k \in 1..Len(blocks) :
          blocks[k].type = "table" =>
             \A r \in 1..Len(blocks[k].rows) :
                Len(blocks[k].rows[r]) = Len(blocks[k].rows[1])

\* C2: when the first cell of row r declares rowspan > 1 (all colspans 1),
\* the emitted row r+1 starts with an empty placeholder cell and has one cell
\* per grid column it occupies, so [rowspan=2 cell, cell] / [cell] is emitted
\* as two rows of two cells.
C2_RowspanPlaceholder ==
    (Done /\ SingleTop("table") /\ PlainTable(html.markup[1])
          /\ Len(blocks) = 1
          /\ \A r \in 1..Len(html.markup[1].contents) :
                \A c \in 1..Len(SrcCells(html.markup[1], r)) :
                   SrcCells(html.markup[1], r)[c].colspan = 1)
    => LET t == html.markup[1]
       IN  \A r \in 1..(Len(t.contents) - 1) :
              (SrcCells(t, r) # <<>> /\ SrcCells(t, r)[1].rowspan > 1) =>
                 /\ Len(blocks[1].rows) >= r + 1
                 /\ Len(blocks[1].rows[r + 1]) = GridWidth(t, r + 1)
                 /\ blocks[1].rows[r + 1][1] = <<>>

\* the strings below a node with the formatting their ancestors give them
RECURSIVE Leaves(_, _, _, _)
Leaves(kids, b, i, h) ==
    IF kids = <<>> THEN <<>>
    ELSE LET k == Head(kids)
         IN  (IF IsString(k)
              THEN <<[text |-> k.text, bold |-> b, italic |-> i, href |-> h]>>
              ELSE Leaves(k.contents,
                          b \/ k.name \in {"b", "strong"},
                          i \/ k.name \in {"i", "em"},
                          IF h # None THEN h ELSE IF k.name = "a" THEN k.href ELSE None))
             \o Leaves(Tail(kids), b, i, h)

AllRuns == Flatten([k \in 1..Len(blocks) |-> blocks[k].runs])

NonBlank(s) == Strip(s) # <<>>

\* C3: for a paragraph element, the text of every string inside a bold tag is
\* in a bold run and that of every string outside one in a run that is not
\* bold; likewise for italic.
C3_InlineFormattingKept ==
    (Done /\ SingleTop("p"))
    => LET ls == Leaves(html.markup, FALSE, FALSE, None)
       IN  \A n \in 1..Len(ls) :
              NonBlank(ls[n].text) =>
                 \E m \in 1..Len(AllRuns) :
                    /\ Contains(AllRuns[m].text, Strip(ls[n].text))
                    /\ AllRuns[m].bold = ls[n].bold
                    /\ AllRuns[m].italic = ls[n].italic

\* C4: for a paragraph element, the text of every string inside a link is in
\* a run carrying that link's href, and that of every string outside any
\* link in a run whose href is None.
C4_HrefPropagated ==
    (Done /\ SingleTop("p"))
    => LET ls == Leaves(html.markup, FALSE, FALSE, None)
       IN  \A n \in 1..Len(ls) :
              NonBlank(ls[n].text) =>
                 \E m \in 1..Len(AllRuns) :
                    /\ Contains(AllRuns[m].text, Strip(ls[n].text))
                    /\ AllRuns[m].href = ls[n].href

\* C5: None and the empty string both give an empty list of blocks.
C5_EmptyInput ==
    (Done /\ (html.isnone \/ html.markup = <<>>)) => blocks = <<>>

C5_Witness == Done /\ html.isnone /\ blocks = <<>>

\* every text of the output: run texts, header texts, cell texts
OutputTexts ==
    UNION {{blocks[k].runs[m].text : m \in 1..Len(blocks[k].runs)}
           \cup {blocks[k].headers[m] : m \in 1..Len(blocks[k].headers)}
           \cup UNION {{blocks[k].rows[r][c] : c \in 1..Len(blocks[k].rows[r])}
                       : r \in 1..Len(blocks[k].rows)}
           : k \in 1..Len(blocks)}

IsScript(node) == IsTag(node) /\ node.name \in {"script", "style"}

\* C6: no text of a script or style subtree (the only place "x" occurs in an
\* input) is in a run, a header or a cell of the output, and markup whose
\* top-level nodes are all script or style elements gives no block.
C6_NoScriptText ==
    Done =>
       /\ \A t \in OutputTexts : \A k \in 1..Len(t) : t[k] # "x"
       /\ (\A n \in 1..Len(html.markup) : IsScript(html.markup[n])) => blocks = <<>>

C6_Witness ==
    /\ Done
    /\ FindAll(BeautifulSoup(html.markup), {"script", "style"}) # <<>>
    /\ \E n \in 1..Len(html.markup) :
          ~IsScript(html.markup[n])
          /\ FindAll(html.markup[n], {"script", "style"}) # <<>>
    /\ blocks # <<>>

\* the text of a top-level node once scripts, styles and line breaks are
\* dealt with
VisibleText(node) ==
    LET cleaned == ReplaceBr(Decompose(<<node>>))
    IN  IF cleaned = <<>> THEN <<>> ELSE ElemText(cleaned[1])

\* a node holding exactly one paragraph of text without a blank line
OneParagraph(node) ==
    /\ ~IsScript(node)
    /\ VisibleText(node) # <<>>
    /\ ~Contains(VisibleText(node), <<NL, NL>>)

\* every top-level node is a table or holds one blank-line-free paragraph
TablesAndParagraphs ==
    /\ ~html.isnone
    /\ \A n \in 1..Len(html.markup) :
          IsTable(html.markup[n]) \/ OneParagraph(html.markup[n])

\* C7: for markup whose top-level nodes are N nodes of one blank-line-free
\* paragraph each and M tables, the result has N + M blocks and the i-th
\* block is the table block or the one-run paragraph of the i-th node.
C7_BlockPerTopLevelNode ==
    (Done /\ TablesAndParagraphs)
    => /\ Len(blocks) = Len(html.markup)
       /\ \A n \in 1..Len(blocks) :
             IF IsTable(html.markup[n])
             THEN blocks[n].type = "table"
             ELSE /\ blocks[n].type = "paragraph"
                  /\ Len(blocks[n].runs) = 1
                  /\ blocks[n].runs[1].text = VisibleText(html.markup[n])

C7_Witness ==
    /\ Done
    /\ TablesAndParagraphs
    /\ Len(html.markup) >= 3
    /\ \E n \in 1..Len(html.markup) : IsTable(html.markup[n])
    /\ \E n \in 1..Len(html.markup) :
          ~IsTable(html.markup[n]) /\ Contains(VisibleText(html.markup[n]), <<NL>>)
    /\ Len(blocks) = Len(html.markup)

\* the body element of the argument, if any
Bodies == FindAll(BeautifulSoup(html.markup), {"body"})
HasBody == Bodies # <<>>

CountTables(nodes) == Len(SelectSeq(nodes, IsTable))

\* C8 as stated: with a body element, the loop is over the body's children,
\* so every table that is a child of the body is emitted as a table block.
C8_BodyChildrenIterated ==
    (Done /\ HasBody) => Len(TableBlocks) = CountTables(Bodies[1].contents)

\* C8 as amended: the loop is over the children of the document root also
\* when there is a body element: there is one table block per table among
\* the root's children, and no table block for a table inside the body.
C8_RootChildrenIterated ==
    Done =>
       /\ Len(TableBlocks) = CountTables(html.markup)
       /\ HasBody => TableBlocks = <<>>

C8_Witness ==
    /\ Done
    /\ HasBody
    /\ CountTables(Bodies[1].contents) > 0
    /\ TableBlocks = <<>>
    /\ blocks # <<>>

\* C9 as stated: every segment of the split text is appended as a paragraph
\* block, with an empty run list when it yields no run.
C9_EmptySegmentAppended ==
    Done => Len(ParagraphBlocks) = Len(paras)

\* C9 as amended: a segment that yields no run is dropped: there is one
\* paragraph block per non-blank segment, and no paragraph block has an
\* empty run list.
C9_EmptySegmentDropped ==
    Done =>
       /\ Len(ParagraphBlocks) = Len(SelectSeq(paras, NonBlank))
       /\ \A k \in 1..Len(blocks) :
             blocks[k].type = "paragraph" => blocks[k].runs # <<>>

C9_Witness ==
    /\ Done
    /\ \E n \in 1..Len(paras) : ~NonBlank(paras[n])
    /\ Len(ParagraphBlocks) < Len(paras)
    /\ ParagraphBlocks # <<>>

\* C10: the runs are, in order, one per non-blank string recurse visited,
\* each with that string's text, leading and trailing whitespace included.
C10_RunTextUnstripped ==
    Done =>
       [m \in 1..Len(AllRuns) |-> AllRuns[m].text] = SelectSeq(visited, NonBlank)

(***************************************************************************)
(* Line breaks and tables without spans.                                   *)
(***************************************************************************)
IsBr(node) == IsTag(node) /\ node.name = "br"

\* a paragraph element whose children are strings and line-break elements,
\* no two strings adjacent
BreakParagraph ==
    /\ SingleTop("p")
    /\ LET kids == html.markup[1].contents
       IN  /\ kids # <<>>
           /\ \A k \in 1..Len(kids) : IsString(kids[k]) \/ IsBr(kids[k])
           /\ \A k \in 1..(Len(kids) - 1) : ~(IsString(kids[k]) /\ IsString(kids[k + 1]))

\* the text of such a paragraph with every line break as a newline
BreakText ==
    LET kids == html.markup[1].contents
    IN  Flatten([k \in 1..Len(kids) |-> IF IsBr(kids[k]) THEN <<NL>> ELSE kids[k].text])

\* C11: a paragraph of strings and line breaks gives one paragraph block per
\* non-blank segment of its text split at blank lines, a blank line being two
\* newlines in a row, whether written in a string or as two line-break
\* elements.
C11_BreaksSplitParagraphs ==
    (Done /\ BreakParagraph)
    => Len(ParagraphBlocks) = Len(SelectSeq(Split(BreakText, <<NL, NL>>), NonBlank))

\* text pieces separated by single line breaks: string, br, string, ...
SingleBreaks ==
    /\ BreakParagraph
    /\ LET kids == html.markup[1].contents
       IN  /\ Len(kids) >= 3
           /\ \A k \in 1..Len(kids) :
                 IF k % 2 = 1
                 THEN IsString(kids[k]) /\ NonBlank(kids[k].text)
                      /\ ~Contains(kids[k].text, <<NL>>)
                 ELSE IsBr(kids[k])

NoSpans(t) ==
    \A r \in 1..Len(t.contents) : \A c \in 1..Len(SrcCells(t, r)) :
       SrcCells(t, r)[c].rowspan = 1 /\ SrcCells(t, r)[c].colspan = 1

\* C13: for a table without spans (rows the table's children, cells theirs,
\* every row with a cell), row i of the block has one cell per cell element
\* of the i-th row element, in order, with that cell's text, all its strings
\* concatenated and the whole trimmed.
C13_NoSpanTableReproduced ==
    (Done /\ SingleTop("table") /\ PlainTable(html.markup[1]) /\ NoSpans(html.markup[1])
          /\ \A r \in 1..Len(html.markup[1].contents) : SrcCells(html.markup[1], r) # <<>>)
    => LET t == html.markup[1]
           cleaned == Decompose(<<t>>)[1]
       IN  /\ Len(blocks) = 1
           /\ blocks[1].rows =
                 [r \in 1..Len(t.contents) |->
                    [c \in 1..Len(SrcCells(t, r)) |->
                       Strip(Flatten(AllStrings(SrcCells(cleaned, r)[c])))]]

(***************************************************************************)
(* clean_html_and_extract_tables, html_parser.py lines 120-161.            *)
(*   html       the argument (as for parse_html_content)                   *)
(*   preserve   the argument preserve_tables_as_html                       *)
(*   soup       the document tree, tables leaving it one by one            *)
(*   idx        the index of the next table of soup.find_all("table")      *)
(*   dead       how many of the next tables of that list were destroyed    *)
(*              with an enclosing table that has been decomposed           *)
(*   tables     the list of entries                                        *)
(*   plaintext  the text returned with it                                  *)
(***************************************************************************)
notClean ==
    <<blocks, paras, visited, renderVars, recurseVars, mainVars, issuesVars, reportVars>>

CleanInputs ==
    {NoneHtml, Markup(<<>>)}
    \cup {Markup(d) : d \in TableDocs \cup MultiDocs \cup BodyDocs
                            \cup {<<A, NestedTable, B, SmallTable>>,
                                  <<Tag("div", <<NestedTable, A>>)>>}}

\* soup.find_all("table"), evaluated once before the loop
FoundTables == FindAll(BeautifulSoup(HtmlOrEmpty(html)), {"table"})

\* variant of DecomposeFirstTable: the table left in the tree
KeepTable(kids) == kids

\* table.decompose() on the first table of the tree in document order (the
\* loop reaches the tables in that order)
RECURSIVE DecomposeFirstTable(_)
DecomposeFirstTable(kids) ==
    IF kids = <<>> THEN <<>>
    ELSE LET k == Head(kids)
         IN  IF IsTable(k) THEN Tail(kids)
             ELSE IF FindAll(k, {"table"}) # <<>>
             THEN <<[k EXCEPT !.contents = DecomposeFirstTable(k.contents)]>> \o Tail(kids)
             ELSE <<k>> \o DecomposeFirstTable(Tail(kids))

\* Tag.decompose() empties every descendant: a table of the list that was
\* inside a decomposed one has lost its name, attributes and contents
Destroyed == Tag(None, <<>>)

\* lines 140-155: the entry appended for a table
TableEntry(t, asHtml) ==
    IF asHtml
    THEN [kind |-> "html", markup |-> t, headers |-> <<>>, rows |-> <<>>]
    ELSE LET trs == FindAll(t, {"tr"})
         IN  [kind |-> "pair", markup |-> Text(<<>>),
              headers |-> IF trs = <<>> THEN <<>>
                          ELSE CellTexts(FindAll(trs[1], {"th", "td"})),
              rows |-> [r \in 1..(Len(trs) - 1) |->
                           CellTexts(FindAll(trs[r + 1], {"td", "th"}))]]

InitClean ==
    /\ html \in CleanInputs
    /\ preserve \in BOOLEAN
    /\ pc = "start"
    /\ soup = BeautifulSoup(<<>>)
    /\ idx = 1
    /\ plaintext = <<>> /\ tables = <<>> /\ dead = 0
    /\ blocks = <<>> /\ paras = <<>> /\ visited = <<>>
    /\ RenderIdle /\ RecurseIdle /\ MainIdle /\ IssuesIdle /\ ReportIdle

\* lines 133-134
CleanEmpty ==
    /\ pc = "start"
    /\ html.isnone \/ html.markup = <<>>
    /\ pc' = "done"
    /\ UNCHANGED <<html, soup, idx, cleanVars, notClean>>

\* lines 136-138
CleanMakeSoup ==
    /\ pc = "start"
    /\ ~(html.isnone \/ html.markup = <<>>)
    /\ soup' = BeautifulSoup(html.markup)
    /\ pc' = "tables"
    /\ UNCHANGED <<html, idx, cleanVars, notClean>>

\* lines 139-157: one iteration of the loop
CleanTable ==
    /\ pc = "tables"
    /\ idx <= Len(FoundTables)
    /\ IF dead > 0
       THEN /\ tables' = Append(tables, TableEntry(Destroyed, preserve))
            /\ dead' = dead - 1
            /\ soup' = soup
       ELSE /\ tables' = Append(tables, TableEntry(FoundTables[idx], preserve))
            /\ dead' = Len(FindAll(FoundTables[idx], {"table"}))
            /\ soup' = [soup EXCEPT !.contents = DecomposeFirstTable(soup.contents)]
    /\ idx' = idx + 1
    /\ UNCHANGED <<html, pc, preserve, plaintext, notClean>>

\* lines 160-161
CleanText ==
    /\ pc = "tables"
    /\ idx > Len(FoundTables)
    /\ plaintext' = GetTextStrip(soup, <<SP>>)
    /\ pc' = "done"
    /\ UNCHANGED <<html, soup, idx, preserve, tables, dead, notClean>>

NextClean == CleanEmpty \/ CleanMakeSoup \/ CleanTable \/ CleanText

SpecClean == InitClean /\ [][NextClean]_vars

\* the strings of the markup that are not inside a table
RECURSIVE StringsOutsideTables(_)
StringsOutsideTables(kids) ==
    IF kids = <<>> THEN <<>>
    ELSE LET k == Head(kids)
         IN  (IF IsString(k) THEN <<k.text>>
              ELSE IF IsTable(k) THEN <<>>
              ELSE StringsOutsideTables(k.contents))
             \o StringsOutsideTables(Tail(kids))

\* the table elements that are not inside another table
TopTables == {k \in 1..Len(FoundTables) :
                 \A j \in 1..(k - 1) : k > j + Len(FindAll(FoundTables[j], {"table"}))}

\* C14: the text returned is the text of the input outside its tables, the
\* list has one entry per table element of the input, in document order, a
\* markup string when preserve_tables_as_html is true and a (headers, rows)
\* pair otherwise, and None or the empty string gives ("", []).
C14_TextAndTables ==
    Done =>
       /\ (html.isnone \/ html.markup = <<>>) => (plaintext = <<>> /\ tables = <<>>)
       /\ plaintext = Join(StripEach(StringsOutsideTables(html.markup)), <<SP>>)
       /\ Len(tables) = Len(FoundTables)
       /\ \A k \in 1..Len(tables) :
             /\ tables[k].kind = IF preserve THEN "html" ELSE "pair"
             /\ (preserve /\ k \in TopTables) => tables[k].markup = FoundTables[k]

C14_Witness ==
    /\ Done
    /\ Len(tables) >= 2
    /\ ~preserve
    /\ plaintext # <<>>
    /\ Len(StringsOutsideTables(html.markup)) < Len(AllStringsIn(html.markup))
    /\ \E k \in 1..Len(tables) : tables[k].rows # <<>>

(***************************************************************************)
(* recurse, html_parser.py lines 59-69, called on any node with any        *)
(* formatting state, as its recursive calls are.                           *)
(*   rarg    the arguments of the call                                     *)
(*   rruns   the runs the call appended                                    *)
(***************************************************************************)
notRecurse ==
    <<parseVars, cleanVars, renderVars, mainVars, issuesVars, reportVars>>

RecurseNodes ==
    Inline2
    \cup {Tag("p", <<A, m, Text(<<"d">>)>>) : m \in Inline2}
    \cup {Tag("span", <<Text(<<SP>>), m, Text(<<NL, "d", SP>>)>>) : m \in Inline1}

RecurseArgs ==
    [node : RecurseNodes, bold : BOOLEAN, italic : BOOLEAN,
     href : {None, "", "http://z"} \cup Hrefs]

InitRecurse ==
    /\ rarg \in RecurseArgs
    /\ rruns = <<>>
    /\ pc = "start"
    /\ ParseIdle /\ CleanIdle /\ RenderIdle /\ MainIdle /\ IssuesIdle /\ ReportIdle

\* lines 59-69: one call, with the calls it makes
RecurseCall ==
    /\ pc = "start"
    /\ rruns' = Recurse(rarg.node, rarg.bold, rarg.italic, rarg.href)
    /\ pc' = "done"
    /\ UNCHANGED <<rarg, notRecurse>>

NextRecurse == RecurseCall

SpecRecurse == InitRecurse /\ [][NextRecurse]_vars

\* C16: every run emitted from the subtree of a node visited with bold=true
\* (italic=true, a non-empty href) is bold (italic, carries that href),
\* whatever is nested inside, and the runs follow the depth-first,
\* left-to-right order of the text nodes.
C16_FormattingMonotonic ==
    Done =>
       /\ rarg.bold => \A k \in 1..Len(rruns) : rruns[k].bold
       /\ rarg.italic => \A k \in 1..Len(rruns) : rruns[k].italic
       /\ Truthy(rarg.href) => \A k \in 1..Len(rruns) : rruns[k].href = rarg.href
       /\ [k \in 1..Len(rruns) |-> rruns[k].text] = StripEach(AllStrings(rarg.node))

C16_Witness ==
    /\ Done
    /\ rarg.bold /\ ~rarg.italic
    /\ rarg.href = "http://z"
    /\ Len(rruns) >= 3
    /\ FindAll(rarg.node, {"a"}) # <<>>
    /\ FindAll(rarg.node, {"i"}) # <<>>
    /\ \E k \in 1..Len(rruns) : rruns[k].italic
    /\ \E k \in 1..Len(rruns) : ~rruns[k].italic

(***************************************************************************)
(* render_html_to_docx, html_parser.py lines 78-115: the blocks of         *)
(* parse_html_content written into the document, one block per step.       *)
(*   rpos    the index of the next block                                   *)
(*   alloc   per block rendered, the table allocated for it (rows, cols)   *)
(*           and the widest row the code wrote or tried to write           *)
(*   fault   the IndexError raised, if any: block, row and column of the   *)
(*           cell that does not exist                                      *)
(***************************************************************************)
\* line 98: cols = len(headers) or (len(rows[0]) if rows else 0)
TableCols(blk) ==
    IF Len(blk.headers) # 0 THEN Len(blk.headers)
    ELSE IF blk.rows # <<>> THEN Len(blk.rows[1]) ELSE 0

\* lines 109-112: the rows with a cell at a column index >= cols
TooWide(blk) == {r \in 1..Len(blk.rows) : Len(blk.rows[r]) > TableCols(blk)}

FirstOf(S) == CHOOSE r \in S : \A q \in S : r <= q

MaxLenOf(rows) ==
    IF rows = <<>> THEN 0
    ELSE LET n == CHOOSE m \in 1..Len(rows) : \A q \in 1..Len(rows) : Len(rows[q]) <= Len(rows[m])
         IN  Len(rows[n])

\* lines 84-93
RenderParagraph ==
    /\ pc = "done"
    /\ rpos <= Len(blocks)
    /\ blocks[rpos].type = "paragraph"
    /\ alloc' = Append(alloc, [rows |-> 0, cols |-> 0, widest |-> 0])
    /\ rpos' = rpos + 1
    /\ UNCHANGED <<pc, fault, parseVars, cleanVars, recurseVars, mainVars, issuesVars, reportVars>>

\* lines 95-112: the table is allocated, the headers written into row 0 and
\* row i of the block into row i; cells[j] with j >= cols raises IndexError
RenderTable ==
    /\ pc = "done"
    /\ rpos <= Len(blocks)
    /\ blocks[rpos].type = "table"
    /\ LET blk == blocks[rpos]
           cols == TableCols(blk)
       IN  IF TooWide(blk) = {}
           THEN /\ alloc' = Append(alloc, [rows |-> 1 + Len(blk.rows), cols |-> cols,
                                           widest |-> MaxLenOf(<<blk.headers>> \o blk.rows)])
                /\ rpos' = rpos + 1
                /\ UNCHANGED <<pc, fault>>
           ELSE LET r == FirstOf(TooWide(blk))
                IN  /\ alloc' = Append(alloc, [rows |-> 1 + Len(blk.rows), cols |-> cols,
                                               widest |-> Len(blk.rows[r])])
                    /\ fault' = <<[block |-> rpos, row |-> r, col |-> cols]>>
                    /\ pc' = "raised"
                    /\ rpos' = rpos
    /\ UNCHANGED <<parseVars, cleanVars, recurseVars, mainVars, issuesVars, reportVars>>

\* lines 114-115
RenderSpacer ==
    /\ pc = "done"
    /\ rpos > Len(blocks)
    /\ pc' = "rendered"
    /\ UNCHANGED <<rpos, alloc, fault, parseVars, cleanVars, recurseVars, mainVars,
                   issuesVars, reportVars>>

NextRender ==
    \/ MakeSoup
    \/ DecomposeScripts
    \/ ReplaceBreaks
    \/ HandleTable
    \/ HandleParagraph
    \/ Return
    \/ RenderParagraph
    \/ RenderTable
    \/ RenderSpacer

SpecRender == Init /\ [][NextRender]_vars

\* C18: for every table block of parse_html_content, every header and every
\* cell of every row is written at a column index smaller than the column
\* count of the table allocated for the block: no write is outside it.
C18_WritesInBounds ==
    /\ fault = <<>>
    /\ \A k \in 1..Len(alloc) : alloc[k].widest <= alloc[k].cols

(***************************************************************************)
(* main, project_report.py lines 50-93, with prompt_filters (lines 34-48)  *)
(* and the severity filter of get_project_issues (http_client.py lines     *)
(* 160-164).  Strings are sequences of characters.                         *)
(*   filters        the three lines typed at the prompts, and the filters  *)
(*                  prompt_filters returns for them (empty for None)       *)
(*   projects       the result of get_all_projects, each project with the  *)
(*                  severities of the issue items the API holds for it     *)
(*   pidx           the index of the next project                          *)
(*   matching_rows  the rows collected                                     *)
(***************************************************************************)
MaxProjects == 2

notMain == <<parseVars, cleanVars, renderVars, recurseVars, issuesVars, reportVars>>

\* str.lower() on the letters used
Lower(s) ==
    [k \in 1..Len(s) |->
        CASE s[k] = "H" -> "h" [] s[k] = "L" -> "l" [] s[k] = "M" -> "m"
          [] s[k] = "N" -> "n" [] OTHER -> s[k]]

Digits == <<"0", "1", "2", "3", "4", "5", "6", "7", "8", "9">>
IsDigit(c) == \E n \in 1..10 : Digits[n] = c
DigitVal(c) == (CHOOSE n \in 1..10 : Digits[n] = c) - 1

\* datetime.strptime(month, "%Y-%m") does not raise: four digits, a dash and
\* a month 1[0-2], 0[1-9] or [1-9], nothing left over
StrptimeOk(m) ==
    /\ Len(m) \in {6, 7}
    /\ \A k \in 1..4 : IsDigit(m[k])
    /\ m[5] = "-"
    /\ IF Len(m) = 7
       THEN \/ m[6] = "1" /\ m[7] \in {"0", "1", "2"}
            \/ m[6] = "0" /\ IsDigit(m[7]) /\ m[7] # "0"
       ELSE IsDigit(m[6]) /\ m[6] # "0"

\* date.strftime("%Y-%m")
Strftime(d) ==
    <<Digits[(d.y \div 1000) + 1], Digits[((d.y \div 100) % 10) + 1],
      Digits[((d.y \div 10) % 10) + 1], Digits[(d.y % 10) + 1], "-",
      Digits[(d.m \div 10) + 1], Digits[(d.m % 10) + 1]>>

StartsWith(s, prefix) ==
    Len(prefix) <= Len(s) /\ SubSeq(s, 1, Len(prefix)) = prefix

\* line 40: {s.strip().lower() for s in severity.split(",") if s.strip()}
SevSet(severity) ==
    LET pieces == Split(severity, <<",">>)
    IN  {Lower(Strip(pieces[k])) : k \in {j \in 1..Len(pieces) : Strip(pieces[j]) # <<>>}}

\* http_client.py lines 152-188 for the severities of the items: the issues
\* returned, each with its trimmed, lower-cased severity
RECURSIVE GetProjectIssues(_, _)
GetProjectIssues(items, severity) ==
    IF items = <<>> THEN <<>>
    ELSE LET sev == Lower(Strip(Head(items)))
         IN  (IF severity # {} /\ sev \notin {Lower(x) : x \in severity}
              THEN <<>> ELSE <<sev>>)
             \o GetProjectIssues(Tail(items), severity)

\* http_client.py lines 91-128: region = extract("Region") is trimmed
ProjectMeta(rawregion, start, items) ==
    [region |-> Strip(rawregion), start_date |-> start, items |-> items]

Str1(c) == <<c>>
RegionInputs == {<<>>, <<SP>>, <<"N">>, <<SP, "N", SP>>, <<"n">>}
MonthInputs ==
    {<<>>,
     <<"2", "0", "2", "4", "-", "0", "1">>,
     <<SP, "2", "0", "2", "4", "-", "1", "0">>,
     <<"2", "0", "2", "4", "-", "1">>,
     <<"2", "0", "2", "4", "-", "1", "3">>,
     <<"2", "0", "2", "4">>}
SeverityInputs ==
    {<<>>, <<SP, ",">>, <<"H">>, <<"h", ",", SP, "L">>, <<"m", ",", ",">>}

ProjectKinds ==
    {ProjectMeta(r, d, i) :
        r \in {<<"N">>, <<"N", SP>>, <<"S">>},
        d \in {[y |-> 2024, m |-> 1], [y |-> 2024, m |-> 10], [y |-> 2023, m |-> 1]},
        i \in {<<>>, <<<<"h", SP>>, Str1("l")>>, <<Str1("m"), Str1("H")>>}}

InitMain ==
    /\ \E r \in RegionInputs, m \in MonthInputs, s \in SeverityInputs :
          filters = [rawregion |-> r, rawmonth |-> m, rawseverity |-> s,
                     region |-> <<>>, month |-> <<>>, severity |-> {}]
    /\ projects \in UNION {[1..n -> ProjectKinds] : n \in 0..MaxProjects}
    /\ pidx = 1
    /\ matching_rows = <<>>
    /\ pc = "start"
    /\ ParseIdle /\ CleanIdle /\ RenderIdle /\ RecurseIdle /\ IssuesIdle /\ ReportIdle

\* lines 36-48: the prompts answered, the month accepted
PromptFilters ==
    /\ pc = "start"
    /\ LET month == Strip(filters.rawmonth)
       IN  /\ month = <<>> \/ StrptimeOk(month)
           /\ filters' = [filters EXCEPT !.region = Strip(filters.rawregion),
                                         !.month = month,
                                         !.severity = SevSet(Strip(filters.rawseverity))]
    /\ pc' = "projects"
    /\ UNCHANGED <<projects, pidx, matching_rows, notMain>>

\* lines 41-46: the month refused, sys.exit(1)
PromptExit ==
    /\ pc = "start"
    /\ Strip(filters.rawmonth) # <<>>
    /\ ~StrptimeOk(Strip(filters.rawmonth))
    /\ pc' = "exit"
    /\ UNCHANGED <<mainVars, notMain>>

\* lines 60-72: the project does not pass the region or the month filter
RegionSkips(pr) == filters.region # <<>> /\ Strip(filters.region) # Strip(pr.region)
MonthSkips(pr) == filters.month # <<>> /\ ~StartsWith(Strftime(pr.start_date), filters.month)

SkipProject ==
    /\ pc = "projects"
    /\ pidx <= Len(projects)
    /\ RegionSkips(projects[pidx]) \/ MonthSkips(projects[pidx])
    /\ pidx' = pidx + 1
    /\ UNCHANGED <<pc, filters, projects, matching_rows, notMain>>

\* lines 90-93: the severity filter applied again to each issue returned
RowsOf(pr, issues_) ==
    LET kept == SelectSeq(issues_,
                   LAMBDA sev : ~(filters.severity # {}
                                  /\ Strip(sev) \notin {Strip(x) : x \in filters.severity}))
    IN  [k \in 1..Len(kept) |->
            [region |-> pr.region, start_date |-> pr.start_date, severity |-> kept[k]]]

\* lines 74-117: the project passes, its issues are fetched and their rows
\* appended
CollectProject ==
    /\ pc = "projects"
    /\ pidx <= Len(projects)
    /\ ~RegionSkips(projects[pidx])
    /\ ~MonthSkips(projects[pidx])
    /\ matching_rows' = matching_rows \o
          RowsOf(projects[pidx], GetProjectIssues(projects[pidx].items, filters.severity))
    /\ pidx' = pidx + 1
    /\ UNCHANGED <<pc, filters, projects, notMain>>

\* the loop over the projects is over
MainCollected ==
    /\ pc = "projects"
    /\ pidx > Len(projects)
    /\ pc' = "done"
    /\ UNCHANGED <<mainVars, notMain>>

NextMain == PromptFilters \/ PromptExit \/ SkipProject \/ CollectProject \/ MainCollected

SpecMain == InitMain /\ [][NextMain]_vars

\* the month a filter accepted by the prompt names
FilterMonth ==
    LET f == filters.month
    IN  [y |-> 1000 * DigitVal(f[1]) + 100 * DigitVal(f[2]) + 10 * DigitVal(f[3]) + DigitVal(f[4]),
         m |-> IF Len(f) = 7 THEN 10 * DigitVal(f[6]) + DigitVal(f[7]) ELSE DigitVal(f[6])]

AllItems == SumOf([k \in 1..Len(projects) |-> Len(projects[k].items)])

\* C15: every row collected satisfies every filter that is not empty: the
\* trimmed region of its project is the trimmed region filter, the start
\* date of its project is in the month of the month filter, its severity is,
\* case ignored, in the severity set; with all three filters empty every
\* issue of every project is collected.
C15_RowsSatisfyFilters ==
    /\ \A k \in 1..Len(matching_rows) :
          LET row == matching_rows[k]
          IN  /\ Strip(filters.rawregion) # <<>>
                    => Strip(row.region) = Strip(filters.rawregion)
              /\ filters.month # <<>>
                    => [y |-> row.start_date.y, m |-> row.start_date.m] = FilterMonth
              /\ SevSet(filters.rawseverity) # {}
                    => Lower(row.severity) \in SevSet(filters.rawseverity)
    /\ (Done /\ Strip(filters.rawregion) = <<>> /\ Strip(filters.rawmonth) = <<>>
             /\ SevSet(filters.rawseverity) = {})
          => Len(matching_rows) = AllItems

(***************************************************************************)
(* get_project_issues, http_client.py lines 131-188, called again and      *)
(* again on an empty cache directory.                                      *)
(*   cache         per project, whether its cache file exists and the      *)
(*                 items in it                                             *)
(*   lastOk        per project, the items of the most recent call the API  *)
(*                 answered                                                *)
(*   lastCachedOk  the same for the calls made with use_cache=True         *)
(*   call          the last call: arguments, outcome of the request and    *)
(*                 the severities of the issues returned                   *)
(*   ncalls        the number of calls made                                *)
(***************************************************************************)
MaxCalls == 3

notIssues == <<parseVars, cleanVars, renderVars, recurseVars, mainVars, reportVars>>

ProjectIds == {"p1", "p2"}
ItemLists == {<<>>, <<Str1("H")>>, <<Str1("l"), <<"h", SP>>>>}
SeverityLists == {{}, {Str1("h")}, {Str1("L")}}

NoItems == [any |-> FALSE, items |-> <<>>]
Items(items) == [any |-> TRUE, items |-> items]

\* variant of WriteCache: the file written whatever use_cache says
WriteCacheAlways(c, project_id, items, use_cache) ==
    [c EXCEPT ![project_id] = Items(items)]

\* lines 143-144: if use_cache: cache_file.write_text(json.dumps(items))
WriteCache(c, project_id, items, use_cache) ==
    IF use_cache THEN [c EXCEPT ![project_id] = Items(items)] ELSE c

InitIssues ==
    /\ cache = [p \in ProjectIds |-> NoItems]
    /\ lastOk = [p \in ProjectIds |-> NoItems]
    /\ lastCachedOk = [p \in ProjectIds |-> NoItems]
    /\ call = [project_id |-> "p1", severity |-> {}, use_cache |-> TRUE,
               ok |-> TRUE, result |-> <<>>]
    /\ ncalls = 0
    /\ pc = "start"
    /\ ParseIdle /\ CleanIdle /\ RenderIdle /\ RecurseIdle /\ MainIdle /\ ReportIdle

\* lines 140-144 and 152-188: the API answers
CallAnswered ==
    /\ ncalls < MaxCalls
    /\ \E p \in ProjectIds, sev \in SeverityLists, uc \in BOOLEAN, items \in ItemLists :
          /\ cache' = WriteCache(cache, p, items, uc)
          /\ lastOk' = [lastOk EXCEPT ![p] = Items(items)]
          /\ lastCachedOk' = IF uc THEN [lastCachedOk EXCEPT ![p] = Items(items)]
                             ELSE lastCachedOk
          /\ call' = [project_id |-> p, severity |-> sev, use_cache |-> uc,
                      ok |-> TRUE, result |-> GetProjectIssues(items, sev)]
    /\ ncalls' = ncalls + 1
    /\ UNCHANGED <<pc, notIssues>>

\* lines 145-150 and 152-188: the request raises
CallFailed ==
    /\ ncalls < MaxCalls
    /\ \E p \in ProjectIds, sev \in SeverityLists, uc \in BOOLEAN :
          call' = [project_id |-> p, severity |-> sev, use_cache |-> uc,
                   ok |-> FALSE,
                   result |-> IF cache[p].any
                              THEN GetProjectIssues(cache[p].items, sev)
                              ELSE <<>>]
    /\ ncalls' = ncalls + 1
    /\ UNCHANGED <<pc, cache, lastOk, lastCachedOk, notIssues>>

NextIssues == CallAnswered \/ CallFailed

SpecIssues == InitIssues /\ [][NextIssues]_vars

FailedCall == ncalls > 0 /\ ~call.ok

\* C19 as stated: a call that fails at the API after a call for the same
\* project succeeded with use_cache=true returns the issues built from the
\* items of the most recent successful call for the project, filtered by its
\* own severity list; without a cache file it returns the empty list.
C19_FallbackToLastSuccess ==
    FailedCall =>
       /\ lastCachedOk[call.project_id].any
             => call.result = GetProjectIssues(lastOk[call.project_id].items, call.severity)
       /\ ~cache[call.project_id].any => call.result = <<>>

\* C19 as amended: the items are those of the most recent successful call
\* for the project made with use_cache=true; a successful call made with
\* use_cache=false in between leaves the cache file as it was.
C19_FallbackToLastCachedSuccess ==
    FailedCall =>
       /\ lastCachedOk[call.project_id].any
             => call.result = GetProjectIssues(lastCachedOk[call.project_id].items,
                                               call.severity)
       /\ ~cache[call.project_id].any => call.result = <<>>
       /\ ~lastCachedOk[call.project_id].any => call.result = <<>>

C19_Witness ==
    /\ FailedCall
    /\ lastCachedOk[call.project_id].any
    /\ lastOk[call.project_id] # lastCachedOk[call.project_id]
    /\ call.severity # {}
    /\ call.result # <<>>
    /\ call.result # GetProjectIssues(lastOk[call.project_id].items, call.severity)

(***************************************************************************)
(* ReportBuilder.build_sections and _render_issue, report_builder.py lines *)
(* 65-196.                                                                 *)
(*   issues   self.issues: per issue its region (None: no string, a str:   *)
(*            one string, a list: its strings) and, per table of its       *)
(*            Description, the tables html2docx leaves in temp_doc         *)
(*   groups   the dict of build_sections, in insertion order               *)
(*   gpos     the index of the next item of groups.items()                 *)
(*   ipos     the index of the next issue of the branch                    *)
(*   fieldi   the index i of the next field of _render_issue               *)
(*   tbl      the table the local name tbl is bound to                     *)
(*   out      what was done to the document: headings, field rows written, *)
(*            issues completed                                             *)
(***************************************************************************)
MaxIssues == 3
NumFields == 9
DescriptionField == 2

notReport == <<parseVars, cleanVars, renderVars, recurseVars, mainVars, issuesVars>>

Unknown == <<"UNKNOWN">>

\* lines 65-73, on the strings of the region
RECURSIVE RegionKey(_)
RegionKey(raw_region) ==
    IF raw_region = <<>> THEN Unknown
    ELSE IF Strip(Head(raw_region)) # <<>> THEN Strip(Head(raw_region))
    ELSE RegionKey(Tail(raw_region))

\* groups.setdefault(key, []).append(issue)
AddToGroup(gs, key, id) ==
    IF \E g \in 1..Len(gs) : gs[g].key = key
    THEN [g \in 1..Len(gs) |->
            IF gs[g].key = key THEN [gs[g] EXCEPT !.members = Append(@, id)] ELSE gs[g]]
    ELSE Append(gs, [key |-> key, members |-> <<id>>])

\* lines 76-80: the first loop over the issues 1..n
RECURSIVE GroupIssues(_, _)
GroupIssues(iss, n) ==
    IF n = 0 THEN <<>>
    ELSE AddToGroup(GroupIssues(iss, n - 1), RegionKey(iss[n].region), n)

\* line 155: the table of the issue; line 188: a table of a temp_doc
OwnTable == [own |-> TRUE, rows |-> NumFields, cols |-> 2]
TempTable(r, c) == [own |-> FALSE, rows |-> r, cols |-> c]

\* temp_doc.tables after html2docx(raw_html, temp_doc), for the tables of a
\* Description: the library is not part of the repository, its result is
\* any of: nothing rendered, a table of 9 rows and 2 columns, one of 1 row
RenderedTables == {<<>>, <<TempTable(9, 2)>>, <<TempTable(1, 2)>>}
Descriptions == {<<>>} \cup {<<t>> : t \in RenderedTables}

RegionValues == {<<>>, <<Str1("N")>>, <<<<SP, "N">>>>, <<Str1("S")>>, <<Str1(SP), Str1("S")>>}

IssueKinds == [region : RegionValues, desc_tables : Descriptions]

Event(kind, key, id, i, own) ==
    [kind |-> kind, key |-> key, id |-> id, i |-> i, own |-> own]

InitReport ==
    /\ issues \in UNION {[1..n -> IssueKinds] : n \in 0..MaxIssues}
    /\ groups = <<>>
    /\ out = <<>>
    /\ gpos = 1 /\ ipos = 1 /\ fieldi = 0
    /\ tbl = OwnTable
    /\ pc = "start"
    /\ ParseIdle /\ CleanIdle /\ RenderIdle /\ RecurseIdle /\ MainIdle /\ IssuesIdle

\* lines 76-80
GroupAll ==
    /\ pc = "start"
    /\ groups' = GroupIssues(issues, Len(issues))
    /\ pc' = "section"
    /\ UNCHANGED <<issues, out, gpos, ipos, fieldi, tbl, notReport>>

\* lines 82-106: the header and the heading of a branch
StartSection ==
    /\ pc = "section"
    /\ gpos <= Len(groups)
    /\ out' = Append(out, Event("heading", groups[gpos].key, 0, 0, TRUE))
    /\ ipos' = 1
    /\ pc' = "issue"
    /\ UNCHANGED <<issues, groups, gpos, fieldi, tbl, notReport>>

\* lines 112-164: heading of the issue, fields, tbl = self.doc.add_table(...)
StartIssue ==
    /\ pc = "issue"
    /\ ipos <= Len(groups[gpos].members)
    /\ tbl' = OwnTable
    /\ fieldi' = 0
    /\ pc' = "fields"
    /\ UNCHANGED <<issues, groups, out, gpos, ipos, notReport>>

\* the table tbl names after the loops of lines 183-189
AfterDescription(desc_tables, t) ==
    LET rendered == Flatten(desc_tables)
    IN  IF rendered = <<>> THEN t ELSE rendered[Len(rendered)]

\* lines 166-194: one iteration of the loop over the fields;
\* left, right = tbl.rows[i].cells raises IndexError when tbl has no row i
\* and ValueError when the row has not exactly two cells
FieldRow ==
    /\ pc = "fields"
    /\ fieldi < NumFields
    /\ LET id == groups[gpos].members[ipos]
       IN  IF fieldi >= tbl.rows \/ tbl.cols # 2
           THEN /\ pc' = "raised"
                /\ UNCHANGED <<out, fieldi, tbl>>
           ELSE /\ out' = Append(out, Event("row", groups[gpos].key, id, fieldi, tbl.own))
                /\ tbl' = IF fieldi = DescriptionField
                          THEN AfterDescription(issues[id].desc_tables, tbl)
                          ELSE tbl
                /\ fieldi' = fieldi + 1
                /\ pc' = pc
    /\ UNCHANGED <<issues, groups, gpos, ipos, notReport>>

\* line 196, and the next issue of the branch
EndIssue ==
    /\ pc = "fields"
    /\ fieldi = NumFields
    /\ out' = Append(out, Event("issue", groups[gpos].key, groups[gpos].members[ipos], 0, TRUE))
    /\ ipos' = ipos + 1
    /\ pc' = "issue"
    /\ UNCHANGED <<issues, groups, gpos, fieldi, tbl, notReport>>

\* line 108: the issues of the branch are done
EndSection ==
    /\ pc = "issue"
    /\ ipos > Len(groups[gpos].members)
    /\ gpos' = gpos + 1
    /\ pc' = "section"
    /\ UNCHANGED <<issues, groups, out, ipos, fieldi, tbl, notReport>>

\* line 82: groups.items() is exhausted
SectionsBuilt ==
    /\ pc = "section"
    /\ gpos > Len(groups)
    /\ pc' = "done"
    /\ UNCHANGED <<reportVars, notReport>>

NextReport ==
    \/ GroupAll
    \/ StartSection
    \/ StartIssue
    \/ FieldRow
    \/ EndIssue
    \/ EndSection
    \/ SectionsBuilt

SpecReport == InitReport /\ [][NextReport]_vars

\* C17: for every issue each of the nine field rows i = 0..8 is written into
\* row i of the table created for that issue, also when tables of the
\* Description were rendered into the right-hand cell: no row of another
\* table is read, and no field is left unwritten by an exception.
C17_FieldRowsInIssueTable ==
    /\ pc # "raised"
    /\ \A k \in 1..Len(out) : out[k].kind = "row" => out[k].own
    /\ pc = "fields" => tbl = OwnTable

Ended == pc \in {"done", "raised"}

Completed == SelectSeq(out, LAMBDA e : e.kind = "issue")
Headings == SelectSeq(out, LAMBDA e : e.kind = "heading")
FirstWithKey(key) ==
    CHOOSE n \in 1..Len(issues) :
       /\ RegionKey(issues[n].region) = key
       /\ \A q \in 1..(n - 1) : RegionKey(issues[q].region) # key

\* C20: when build_sections ends, every issue has been rendered exactly
\* once, under the heading of its region key; the headings are in the order
\* in which their regions first appear in the issue list, and the issues of
\* a region are in their input order.
C20_EveryIssueOnceInOrder ==
    Ended =>
       /\ \A n \in 1..Len(issues) :
             Cardinality({k \in 1..Len(Completed) : Completed[k].id = n}) = 1
       /\ \A k \in 1..Len(Completed) :
             Completed[k].key = RegionKey(issues[Completed[k].id].region)
       /\ {Headings[k].key : k \in 1..Len(Headings)}
             = {RegionKey(issues[n].region) : n \in 1..Len(issues)}
       /\ \A k \in 1..Len(Headings) : \A j \in 1..(k - 1) :
             FirstWithKey(Headings[j].key) < FirstWithKey(Headings[k].key)
       /\ \A k \in 1..Len(Completed) : \A j \in 1..(k - 1) :
             Completed[j].key = Completed[k].key => Completed[j].id < Completed[k].id
       /\ \A k \in 1..Len(out) : \A j \in 1..(k - 1) :
             (out[k].kind = "issue" /\ out[j].kind = "heading"
                /\ \A q \in (j + 1)..(k - 1) : out[q].kind # "heading")
             => out[j].key = out[k].key

====
